---- MODULE Spec2Model ----
(***************************************************************************)
(* A model of package staticdir: the Translator that walks a source tree   *)
(* and materialises a parallel target tree, and the two copy strategies    *)
(* ColdCopy and TemplateCopy.  The canonical revision is the one with the  *)
(* tolerant Mkdir policy and a Translate that calls CopyDir("").           *)
(*                                                                         *)
(* Strings are sequences of one-character strings, so that the suffix test *)
(* and the suffix trimming of TemplateCopy and the joins of package path   *)
(* are computed character by character.  The filesystem is a function from *)
(* cleaned paths to nodes, with the errno values of the system calls the   *)
(* code makes (open, readdir, mkdir, creat).                               *)
(***************************************************************************)
EXTENDS Integers, Sequences, FiniteSets, TLC

\* ------------------------------------------------------------------ bounds

\* Deepest nesting of directories below the source root.
MaxDepth == 2
\* How many times Translate() is invoked on the same Translator.
MaxRuns == 2

\* ----------------------------------------------------------------- strings

Slash == "/"
Dot == <<".">>
DotDot == <<".", ".">>
Empty == <<>>

\* strings.HasSuffix
HasSuffix(s, suffix) ==
    /\ Len(s) >= Len(suffix)
    /\ SubSeq(s, Len(s) - Len(suffix) + 1, Len(s)) = suffix

\* strings.TrimSuffix: at most one trailing occurrence is removed.
TrimSuffix(s, suffix) ==
    IF HasSuffix(s, suffix) THEN SubSeq(s, 1, Len(s) - Len(suffix)) ELSE s

\* The marker extension of TemplateCopy.
TmplExt == <<".", "t", "m", "p", "l">>

\* The segments of a path between its slashes (empty segments included).
RECURSIVE SplitSlash(_)
SplitSlash(s) ==
    IF \A i \in 1..Len(s) : s[i] # Slash
    THEN <<s>>
    ELSE LET i == CHOOSE k \in 1..Len(s) :
                      s[k] = Slash /\ \A j \in 1..(k - 1) : s[j] # Slash
         IN  <<SubSeq(s, 1, i - 1)>> \o SplitSlash(SubSeq(s, i + 1, Len(s)))

RECURSIVE JoinSlash(_)
JoinSlash(segs) ==
    IF segs = <<>> THEN <<>>
    ELSE IF Len(segs) = 1 THEN segs[1]
    ELSE segs[1] \o <<Slash>> \o JoinSlash(Tail(segs))

\* path.Clean's segment rules: drop empty and "." segments, let ".." cancel
\* the segment before it (kept at the front of a relative path, dropped at
\* the front of a rooted one).
RECURSIVE CleanSegs(_, _, _)
CleanSegs(segs, out, rooted) ==
    IF segs = <<>> THEN out
    ELSE LET h == Head(segs)
             t == Tail(segs)
         IN  IF h = Empty \/ h = Dot THEN CleanSegs(t, out, rooted)
             ELSE IF h = DotDot
                  THEN IF out # <<>> /\ out[Len(out)] # DotDot
                       THEN CleanSegs(t, SubSeq(out, 1, Len(out) - 1), rooted)
                       ELSE IF rooted THEN CleanSegs(t, out, rooted)
                            ELSE CleanSegs(t, Append(out, h), rooted)
                  ELSE CleanSegs(t, Append(out, h), rooted)

\* path.Clean
Clean(p) ==
    LET rooted == p # <<>> /\ p[1] = Slash
        body == JoinSlash(CleanSegs(SplitSlash(p), <<>>, rooted))
    IN  IF rooted THEN <<Slash>> \o body
        ELSE IF body = <<>> THEN Dot ELSE body

\* path.Join of two elements: empty elements are ignored, the rest joined
\* with a slash and cleaned; all empty gives the empty string.
Join(a, b) ==
    IF a = <<>> /\ b = <<>> THEN <<>>
    ELSE IF a = <<>> THEN Clean(b)
    ELSE IF b = <<>> THEN Clean(a)
    ELSE Clean(a \o <<Slash>> \o b)

\* The directory holding a cleaned path (the current directory for a single
\* segment), and the path's last segment.
ParentOf(p) ==
    LET segs == SplitSlash(p)
    IN  IF Len(segs) <= 1 THEN Dot ELSE JoinSlash(SubSeq(segs, 1, Len(segs) - 1))

BaseOf(p) ==
    LET segs == SplitSlash(p) IN segs[Len(segs)]

\* -------------------------------------------------------------- errors

\* A Go error value: nil, or an *os.PathError (op, path, errno), or a
\* template error.
Nil == [op |-> "", path |-> <<>>, errno |-> "nil"]
PathError(op, path, errno) == [op |-> op, path |-> path, errno |-> errno]

\* os.IsExist
IsExist(err) == err.errno = "EEXIST"

\* ---------------------------------------------------------- filesystem

\* Permission bits, written as their octal digits: the mode New gives to
\* created directories (0755), the mode a created file ends with (0666 less
\* the usual umask), a directory nobody may write (0555), and no access.
DirModeDefault == 7 * 64 + 5 * 8 + 5
ModeFile == 6 * 64 + 4 * 8 + 4
ModeReadOnlyDir == 5 * 64 + 5 * 8 + 5
ModeNone == 0 * 64

OwnerCanRead(mode) == (mode \div 256) % 2 = 1
OwnerCanWrite(mode) == (mode \div 128) % 2 = 1

DirNode(mode, entries) ==
    [kind |-> "dir", mode |-> mode, content |-> <<>>, entries |-> entries]
FileNode(mode, content) ==
    [kind |-> "file", mode |-> mode, content |-> content, entries |-> <<>>]

Exists(f, p) == p \in DOMAIN f

\* Why a path that has no node cannot be resolved: a missing component
\* (ENOENT) or a component that is not a directory (ENOTDIR).
RECURSIVE MissingErrno(_, _)
MissingErrno(f, p) ==
    LET d == ParentOf(p)
    IN  IF Exists(f, d)
        THEN IF f[d].kind = "dir" THEN "ENOENT" ELSE "ENOTDIR"
        ELSE IF d = Dot THEN "ENOENT" ELSE MissingErrno(f, d)

\* Adding an entry to a directory: the new node, and its name appended to the
\* parent's directory order.
AddEntry(f, p, node) ==
    LET d == ParentOf(p)
        withParent == [f EXCEPT ![d].entries = Append(@, BaseOf(p))]
    IN  (p :> node) @@ withParent

Result(f, err) == [fs |-> f, err |-> err]

\* os.Open for reading: the path must resolve and be readable.
OpenErr(f, p) ==
    IF ~Exists(f, p) THEN PathError("open", p, MissingErrno(f, p))
    ELSE IF ~OwnerCanRead(f[p].mode) THEN PathError("open", p, "EACCES")
    ELSE Nil

\* os.FileInfo of the node at p.
FileInfo(f, p) ==
    [name |-> BaseOf(p), isDir |-> f[p].kind = "dir",
     size |-> Len(f[p].content), mode |-> f[p].mode]

\* (*os.File).Readdir(0) on an opened path: the entries in directory order.
Readdir(f, p) ==
    IF f[p].kind # "dir"
    THEN [fis |-> <<>>, err |-> PathError("readdirent", p, "ENOTDIR")]
    ELSE [fis |-> [i \in 1..Len(f[p].entries) |->
                      FileInfo(f, p \o <<Slash>> \o f[p].entries[i])],
          err |-> Nil]

\* os.Mkdir
Mkdir(f, p, mode) ==
    LET d == ParentOf(p)
    IN  IF Exists(f, p) THEN Result(f, PathError("mkdir", p, "EEXIST"))
        ELSE IF ~(Exists(f, d) /\ f[d].kind = "dir")
             THEN Result(f, PathError("mkdir", p, MissingErrno(f, p)))
        ELSE IF ~OwnerCanWrite(f[d].mode)
             THEN Result(f, PathError("mkdir", p, "EACCES"))
        ELSE Result(AddEntry(f, p, DirNode(mode, <<>>)), Nil)

\* os.Create without O_TRUNC: an existing file keeps its bytes.
CreateNoTruncate(f, p) ==
    LET d == ParentOf(p)
    IN  IF Exists(f, p)
        THEN IF f[p].kind = "dir" THEN Result(f, PathError("open", p, "EISDIR"))
             ELSE IF ~OwnerCanWrite(f[p].mode)
                  THEN Result(f, PathError("open", p, "EACCES"))
             ELSE Result(f, Nil)
        ELSE IF ~(Exists(f, d) /\ f[d].kind = "dir")
             THEN Result(f, PathError("open", p, MissingErrno(f, p)))
        ELSE IF ~OwnerCanWrite(f[d].mode)
             THEN Result(f, PathError("open", p, "EACCES"))
        ELSE Result(AddEntry(f, p, FileNode(ModeFile, <<>>)), Nil)

\* os.Create: open for writing, creating the file or truncating it.
Create(f, p) ==
    LET d == ParentOf(p)
    IN  IF Exists(f, p)
        THEN IF f[p].kind = "dir" THEN Result(f, PathError("open", p, "EISDIR"))
             ELSE IF ~OwnerCanWrite(f[p].mode)
                  THEN Result(f, PathError("open", p, "EACCES"))
             ELSE Result([f EXCEPT ![p].content = <<>>], Nil)
        ELSE IF ~(Exists(f, d) /\ f[d].kind = "dir")
             THEN Result(f, PathError("open", p, MissingErrno(f, p)))
        ELSE IF ~OwnerCanWrite(f[d].mode)
             THEN Result(f, PathError("open", p, "EACCES"))
        ELSE Result(AddEntry(f, p, FileNode(ModeFile, <<>>)), Nil)

\* Writing bytes through a handle that was just opened: they replace the
\* file's first bytes, and what lies beyond them stays.
Write(f, p, bytes) ==
    [f EXCEPT ![p].content = bytes \o SubSeq(@, Len(bytes) + 1, Len(@))]

\* io.Copy(out, in): every byte of the source as it is when read; reading a
\* directory fails.
IoCopy(f, target, source) ==
    IF f[source].kind = "dir" THEN Result(f, PathError("read", source, "EISDIR"))
    ELSE Result(Write(f, target, f[source].content), Nil)

\* --------------------------------------------------------- html/template

\* File contents are sequences of symbols: single characters, the action
\* "{{.}}" (print the data) and "{{" (an action that is never closed).
ActionDot == "{{.}}"
ActionOpen == "{{"

\* template.ParseFiles on the contents of one file.
ParseErr(source, content) ==
    IF \E i \in 1..Len(content) : content[i] = ActionOpen
    THEN PathError("parse", source, "template")
    ELSE Nil

\* The contextual escaping of html/template in element content.
HTMLEscapeChar(c) ==
    CASE c = "<" -> <<"&", "l", "t", ";">>
      [] c = ">" -> <<"&", "g", "t", ";">>
      [] c = "&" -> <<"&", "a", "m", "p", ";">>
      [] OTHER -> <<c>>

RECURSIVE HTMLEscape(_)
HTMLEscape(s) ==
    IF s = <<>> THEN <<>> ELSE HTMLEscapeChar(Head(s)) \o HTMLEscape(Tail(s))

\* (*Template).Execute: the text with every action replaced by the escaped
\* data.
RECURSIVE Execute(_, _)
Execute(content, data) ==
    IF content = <<>> THEN <<>>
    ELSE (IF Head(content) = ActionDot THEN HTMLEscape(data)
          ELSE <<Head(content)>>) \o Execute(Tail(content), data)

\* ------------------------------------------------------- copy strategies

\* ColdCopy, once the source is open: the target is created (or truncated)
\* and the bytes copied; out is what os.Create gave.
ColdCopyInto(out, source, target) ==
    IF out.err # Nil THEN out ELSE IoCopy(out.fs, target, source)

\* ColdCopy simply copies a source file to a target file, discarding other
\* parameters.
ColdCopy(f, source, target, fi, data) ==
    IF OpenErr(f, source) # Nil THEN Result(f, OpenErr(f, source))
    ELSE ColdCopyInto(Create(f, target), source, target)

\* TemplateCopy with the trimming left out.
TemplateTargetUntrimmed(target) == target

\* The target TemplateCopy writes for a template source.
TemplateTarget(target) == TrimSuffix(target, TmplExt)

\* Whether TemplateCopy treats the source as a template.
IsTemplate(source) == HasSuffix(source, TmplExt)

\* TemplateCopy, once the target is created: the source is parsed and
\* executed into it; g is the filesystem after os.Create.
TemplateRender(g, source, target, data) ==
    IF OpenErr(g, source) # Nil THEN Result(g, OpenErr(g, source))
    ELSE IF g[source].kind = "dir"
         THEN Result(g, PathError("read", source, "EISDIR"))
    ELSE IF ParseErr(source, g[source].content) # Nil
         THEN Result(g, ParseErr(source, g[source].content))
    ELSE Result(Write(g, target, Execute(g[source].content, data)), Nil)

TemplateCopyInto(out, source, target, data) ==
    IF out.err # Nil THEN out ELSE TemplateRender(out.fs, source, target, data)

\* TemplateCopy: ColdCopy unless the source has the extension ".tmpl"; then
\* the source is parsed as a template and executed into the target with the
\* extension removed.
TemplateCopy(f, source, target, fi, data) ==
    IF ~IsTemplate(source) THEN ColdCopy(f, source, target, Nil, Nil)
    ELSE TemplateCopyInto(Create(f, TemplateTarget(target)), source,
                          TemplateTarget(target), data)

\* ------------------------------------------------------------ Translator

\* An exclusion predicate is given by the set of entry names it rejects.
ExcludeNone == {}
Excludes(predicate, fi) == fi.name \in predicate

\* New: both roots cleaned, nothing excluded, directories created 0755, files
\* copied by ColdCopy, no CopyData.
New(source, target) ==
    [Source |-> Clean(source), Target |-> Clean(target),
     ExcludeDir |-> ExcludeNone, ExcludeFile |-> ExcludeNone,
     DirMode |-> DirModeDefault, CopyFunc |-> "ColdCopy", CopyData |-> Nil]

\* The call t.CopyFunc(source, target, fi, data).
CallCopyFunc(fn, f, source, target, fi, data) ==
    IF fn = "TemplateCopy" THEN TemplateCopy(f, source, target, fi, data)
    ELSE ColdCopy(f, source, target, fi, data)

\* GetChildren retrieves all fileinfos contained by a directory.
GetChildren(f, p) ==
    LET err == OpenErr(f, p)
    IN  IF err # Nil THEN [fis |-> <<>>, err |-> err] ELSE Readdir(f, p)

\* CopyDir going on after a failed listing.
ListFatalNever(err) == FALSE

\* CopyDir, after GetChildren: an error is returned at once.
ListFatal(err) == err # Nil

\* CopyDir returning every Mkdir error, "already extant" included; and
\* CopyDir returning none.
MkdirFatalAlways(err) == err # Nil
MkdirFatalNever(err) == FALSE

\* CopyDir, after os.Mkdir: an error is returned unless it is of the
\* "already extant" class.
MkdirFatal(err) == err # Nil /\ ~IsExist(err)

\* The subpath CopyDir hands on for a child.
ChildSubpath(subpath, child) == Join(subpath, child.name)

\* What a CopyFile call did: whether the strategy was called, with which
\* arguments, and the strategy's effect r.
Called(source, target, fi, data, r) ==
    [called |-> TRUE, source |-> source, target |-> target, fi |-> fi,
     data |-> data, fs |-> r.fs, err |-> r.err]
NotCalled(f, fi) ==
    [called |-> FALSE, source |-> <<>>, target |-> <<>>, fi |-> fi,
     data |-> Nil, fs |-> f, err |-> Nil]

\* The call of the strategy in CopyFile.
CopyFileCall(tr, f, source, target, fi) ==
    Called(source, target, fi, tr.CopyData,
           CallCopyFunc(tr.CopyFunc, f, source, target, fi, tr.CopyData))

\* CopyFile without the ExcludeFile test.
CopyFileUnfiltered(tr, f, subpath, fi) ==
    CopyFileCall(tr, f, Join(tr.Source, subpath), Join(tr.Target, subpath), fi)

\* CopyFile: the copy strategy is called unless ExcludeFile rejects the file.
CopyFile(tr, f, subpath, fi) ==
    IF ~Excludes(tr.ExcludeFile, fi)
    THEN CopyFileCall(tr, f, Join(tr.Source, subpath), Join(tr.Target, subpath), fi)
    ELSE NotCalled(f, fi)

\* ------------------------------------------------------------------ state

VARIABLES
    fs,       \* the filesystem: cleaned path -> node
    t,        \* the Translator
    stack,    \* the active CopyDir calls, innermost first
    results,  \* what each finished Translate() returned
    trace,    \* the filesystem calls and strategy calls of the current run
    snap      \* the filesystem as it was when the current run began

vars == <<fs, t, stack, results, trace, snap>>

NoFileInfo == [name |-> <<>>, isDir |-> FALSE, size |-> 0, mode |-> ModeNone]
NoOld == [exists |-> FALSE, content |-> <<>>]

Event(ev, sub, source, target, fi, children, data, old, err) ==
    [ev |-> ev, sub |-> sub, source |-> source, target |-> target, fi |-> fi,
     children |-> children, data |-> data, old |-> old, err |-> err]

Frame(sub) == [sub |-> sub, pc |-> "list", children |-> <<>>, i |-> 1]

Top == Head(stack)

\* ------------------------------------------------------------- the inputs

NameA == <<"a">>
NameF == <<"f">>
NameP == <<"p">> \o TmplExt
\* A plain file with the name the template is rendered to.
NameTwin == <<"p">>

SourceArg == <<".", "/", "s", "/">>
TargetArgs == {<<"t">>, <<"x", "/", ".", "/", "t">>}

BodyF == <<"h", "i">>
BodyTwin == <<"q">>
BodyOld == <<"o", "l", "d", "e", "r">>
TemplateGood == <<"<", ActionDot>>
TemplateBad == <<ActionOpen>>
Data == <<"<", "v">>

RECURSIVE SourceDirAt(_)
SourceDirAt(k) ==
    IF k = 0 THEN Clean(SourceArg) ELSE SourceDirAt(k - 1) \o <<Slash>> \o NameA

Reverse(s) == [i \in 1..Len(s) |-> s[Len(s) + 1 - i]]

\* The directory orders tried: the entries as written, reversed, or with the
\* first entry moved to the end.
Arrangements == {"written", "reversed", "rotated"}
Arrange(s, how) ==
    IF how = "reversed" THEN Reverse(s)
    ELSE IF how = "rotated" /\ s # <<>> THEN Append(Tail(s), Head(s))
    ELSE s

\* The source tree: a chain of directories down to depth, each holding a
\* plain file and a template (and the next directory), the root also the
\* template's twin if twin says so, listed in the order rev chooses; the node
\* at path bad, if any, is unreadable.
SourceFS(depth, rev, bad, tmplBody, twin) ==
    LET dirs == {SourceDirAt(k) : k \in 0..depth}
        files == {d \o <<Slash>> \o n : d \in dirs, n \in {NameF, NameP}}
                 \cup (IF twin THEN {SourceDirAt(0) \o <<Slash>> \o NameTwin} ELSE {})
        level(p) == CHOOSE k \in 0..depth : SourceDirAt(k) = p
        order(k) == LET base == (IF k < depth THEN <<NameA>> ELSE <<>>)
                                \o <<NameF, NameP>>
                                \o (IF twin /\ k = 0 THEN <<NameTwin>> ELSE <<>>)
                    IN  Arrange(base, rev)
        mode(p, m) == IF p = bad THEN ModeNone ELSE m
    IN  [p \in dirs \cup files |->
            IF p \in dirs THEN DirNode(mode(p, DirModeDefault), order(level(p)))
            ELSE FileNode(mode(p, ModeFile),
                          IF BaseOf(p) = NameF THEN BodyF
                          ELSE IF BaseOf(p) = NameTwin THEN BodyTwin
                          ELSE tmplBody)]

\* What is at the target before the first run.
PreTargets ==
    {[root |-> r, a |-> "absent", f |-> "absent"] :
        r \in {"absent", "dir", "rodir", "file"}}
    \cup {[root |-> "dir", a |-> a, f |-> "absent"] : a \in {"file", "rodir"}}
    \cup {[root |-> "dir", a |-> "absent", f |-> "file"]}

\* The overrides a caller makes after New: the exclusion predicates, and the
\* copy strategy with the template the tree holds.
Exclusions ==
    {[dir |-> ExcludeNone, file |-> ExcludeNone],
     [dir |-> {NameA}, file |-> ExcludeNone],
     [dir |-> ExcludeNone, file |-> {NameF}]}

Strategies ==
    {[fn |-> "ColdCopy", tmpl |-> TemplateGood],
     [fn |-> "TemplateCopy", tmpl |-> TemplateGood],
     [fn |-> "TemplateCopy", tmpl |-> TemplateBad]}

TargetFS(target, pre) ==
    LET pa == target \o <<Slash>> \o NameA
        pf == target \o <<Slash>> \o NameF
        paths == (IF pre.root = "absent" THEN {} ELSE {target})
                 \cup (IF pre.a = "absent" THEN {} ELSE {pa})
                 \cup (IF pre.f = "absent" THEN {} ELSE {pf})
        entries == (IF pre.a = "absent" THEN <<>> ELSE <<NameA>>)
                   \o (IF pre.f = "absent" THEN <<>> ELSE <<NameF>>)
    IN  [p \in paths |->
            IF p = target
            THEN (IF pre.root = "file" THEN FileNode(ModeFile, BodyOld)
                  ELSE DirNode(IF pre.root = "rodir" THEN ModeReadOnlyDir
                               ELSE DirModeDefault, entries))
            ELSE IF p = pa
            THEN (IF pre.a = "file" THEN FileNode(ModeFile, BodyOld)
                  ELSE DirNode(ModeReadOnlyDir, <<>>))
            ELSE FileNode(ModeFile, BodyOld)]

Init ==
    \E depth \in 0..MaxDepth, targetArg \in TargetArgs, pre \in PreTargets,
       excl \in Exclusions, strategy \in Strategies, rev \in Arrangements,
       twin \in BOOLEAN :
        LET tr == New(SourceArg, targetArg)
            good == SourceFS(depth, rev, <<>>, strategy.tmpl, twin)
        IN  \E bad \in {<<>>} \cup DOMAIN good :
              /\ (Len(SplitSlash(tr.Target)) > 1 => pre.root = "absent")
              /\ fs = SourceFS(depth, rev, bad, strategy.tmpl, twin)
                      @@ TargetFS(tr.Target, pre)
                      @@ (Dot :> DirNode(DirModeDefault,
                                 <<tr.Source>> \o (IF pre.root = "absent" THEN <<>>
                                                   ELSE <<tr.Target>>)))
              /\ t = [tr EXCEPT !.ExcludeDir = excl.dir, !.ExcludeFile = excl.file,
                                !.CopyFunc = strategy.fn, !.CopyData = Data]
              /\ stack = <<>>
              /\ results = <<>>
              /\ trace = <<>>
              /\ snap = fs

\* ------------------------------------------------------------ operations

\* A CopyDir call returns err: the outermost call's result is what
\* Translate returns; the result of a recursive call is dropped by its caller.
Return(err) ==
    /\ stack' = Tail(stack)
    /\ results' = IF Len(stack) = 1 THEN Append(results, err) ELSE results

\* Translate: CopyDir("").
Translate ==
    /\ stack = <<>>
    /\ Len(results) < MaxRuns
    /\ stack' = <<Frame(<<>>)>>
    /\ trace' = <<>>
    /\ snap' = fs
    /\ UNCHANGED <<fs, t, results>>

\* CopyDir: children, err := GetChildren(path.Join(t.Source, subpath)).
CopyDirList ==
    /\ stack # <<>>
    /\ Top.pc = "list"
    /\ LET p == Join(t.Source, Top.sub)
           r == GetChildren(fs, p)
       IN  /\ trace' = Append(trace, Event("list", Top.sub, p, <<>>, NoFileInfo,
                                           r.fis, Nil, NoOld, r.err))
           /\ IF ListFatal(r.err) THEN Return(r.err)
              ELSE /\ stack' = <<[Top EXCEPT !.pc = "mkdir", !.children = r.fis]>>
                                \o Tail(stack)
                   /\ UNCHANGED results
    /\ UNCHANGED <<fs, t, snap>>

\* CopyDir: err = os.Mkdir(path.Join(t.Target, subpath), t.DirMode).
CopyDirMkdir ==
    /\ stack # <<>>
    /\ Top.pc = "mkdir"
    /\ LET p == Join(t.Target, Top.sub)
           r == Mkdir(fs, p, t.DirMode)
       IN  /\ fs' = r.fs
           /\ trace' = Append(trace, Event("mkdir", Top.sub, <<>>, p, NoFileInfo,
                                           <<>>, Nil, NoOld, r.err))
           /\ IF MkdirFatal(r.err) THEN Return(r.err)
              ELSE /\ stack' = <<[Top EXCEPT !.pc = "loop"]>> \o Tail(stack)
                   /\ UNCHANGED results
    /\ UNCHANGED <<t, snap>>

\* CopyDir's loop passing over a child directory without the recursive call.
CopyDirChildDirSkipped ==
    /\ stack # <<>>
    /\ Top.pc = "loop"
    /\ Top.i <= Len(Top.children)
    /\ Top.children[Top.i].isDir
    /\ stack' = <<[Top EXCEPT !.i = @ + 1]>> \o Tail(stack)
    /\ UNCHANGED <<fs, t, results, trace, snap>>

\* CopyDir's loop, a child directory: t.CopyDir(path.Join(subpath, name)).
CopyDirChildDir ==
    /\ stack # <<>>
    /\ Top.pc = "loop"
    /\ Top.i <= Len(Top.children)
    /\ LET child == Top.children[Top.i]
       IN  /\ child.isDir
           /\ stack' = <<Frame(ChildSubpath(Top.sub, child)),
                         [Top EXCEPT !.i = @ + 1]>> \o Tail(stack)
    /\ UNCHANGED <<fs, t, results, trace, snap>>

\* What the file a strategy call writes held before the call.
OldAt(f, target) ==
    IF Exists(f, target) THEN [exists |-> TRUE, content |-> f[target].content]
    ELSE NoOld
WrittenTarget(tr, c) ==
    IF tr.CopyFunc = "TemplateCopy" /\ IsTemplate(c.source)
    THEN TemplateTarget(c.target) ELSE c.target

\* The effect of the CopyFile call c for the child at sub; its result is
\* dropped.
AfterCopyFile(sub, c) ==
    /\ fs' = c.fs
    /\ trace' = IF c.called
                THEN Append(trace, Event("copy", sub, c.source, c.target, c.fi, <<>>,
                                         c.data, OldAt(fs, WrittenTarget(t, c)), c.err))
                ELSE trace

CopyChildFile(sub, child) == AfterCopyFile(sub, CopyFile(t, fs, sub, child))

\* CopyDir's loop, any other child: t.CopyFile(path.Join(subpath, name), child).
CopyDirChildFile ==
    /\ stack # <<>>
    /\ Top.pc = "loop"
    /\ Top.i <= Len(Top.children)
    /\ ~Top.children[Top.i].isDir
    /\ CopyChildFile(ChildSubpath(Top.sub, Top.children[Top.i]), Top.children[Top.i])
    /\ stack' = <<[Top EXCEPT !.i = @ + 1]>> \o Tail(stack)
    /\ UNCHANGED <<t, results, snap>>

\* CopyDir's loop is over: return nil.
CopyDirReturn ==
    /\ stack # <<>>
    /\ Top.pc = "loop"
    /\ Top.i > Len(Top.children)
    /\ Return(Nil)
    /\ UNCHANGED <<fs, t, trace, snap>>

Next ==
    \/ Translate
    \/ CopyDirList
    \/ CopyDirMkdir
    \/ CopyDirChildDir
    \/ CopyDirChildFile
    \/ CopyDirReturn

Spec == Init /\ [][Next]_vars

\* ------------------------------------------------------------ properties

\* A run of Translate() has returned and none is under way.
Finished == stack = <<>> /\ results # <<>>

Last(q) == q[Len(q)]

\* The segments of a relative subpath; the subpath of the directory that
\* holds it.
SubSegs(sub) == IF sub = <<>> THEN <<>> ELSE SplitSlash(sub)
SubParent(sub) == JoinSlash(SubSeq(SubSegs(sub), 1, Len(SubSegs(sub)) - 1))

\* root/sub written out, for a cleaned root and a cleaned subpath.
Under(root, sub) == IF sub = <<>> THEN root ELSE root \o <<Slash>> \o sub

\* The strategy call of event e was an identity copy, or rendered a template.
Rendered(e) == t.CopyFunc = "TemplateCopy" /\ HasSuffix(e.source, TmplExt)
Identity(e) == ~Rendered(e)

\* The subpath lies in (or is) a directory ExcludeDir rejects.
InExcluded(segs) == \E k \in 1..Len(segs) : segs[k] \in t.ExcludeDir
DirSegs(e) ==
    IF e.ev = "copy" THEN SubSeq(SubSegs(e.sub), 1, Len(SubSegs(e.sub)) - 1)
    ELSE SubSegs(e.sub)

\* C1: a directory ExcludeDir rejects is never listed, never created in the
\* target, and nothing beneath it is copied.
ExcludedDirNeverVisited ==
    \A i \in 1..Len(trace) : ~InExcluded(DirSegs(trace[i]))

\* C2: once the copy of a file has failed nothing later in the walk is
\* attempted, and Translate() returns that error.
FailFastOnCopyError ==
    \A i \in 1..Len(trace) :
        (trace[i].ev = "copy" /\ trace[i].err # Nil) =>
            /\ i = Len(trace)
            /\ Finished => Last(results) = trace[i].err

\* A filesystem call of the run failed, other than a Mkdir that found its
\* directory already there.
RealFailure(e) ==
    /\ e.err # Nil
    /\ ~(e.ev = "mkdir" /\ IsExist(e.err) /\ fs[e.target].kind = "dir")
NoRealFailure == \A i \in 1..Len(trace) : ~RealFailure(trace[i])

\* The directories of the source tree, as subpaths of the source root.
SourceDirSubs ==
    {SubSeq(p, Len(t.Source) + 2, Len(p)) :
        p \in {q \in DOMAIN fs : /\ fs[q].kind = "dir"
                                 /\ Len(q) >= Len(t.Source)
                                 /\ SubSeq(q, 1, Len(t.Source)) = t.Source}}

\* C3: after a run in which no filesystem call failed, every source directory
\* that ExcludeDir does not reject has a directory at the same subpath of the
\* target, at every depth.
StructuralMirroring ==
    (Finished /\ NoRealFailure) =>
        \A sub \in SourceDirSubs :
            (sub = <<>> \/ Last(SubSegs(sub)) \notin t.ExcludeDir) =>
                /\ Exists(fs, Under(t.Target, sub))
                /\ fs[Under(t.Target, sub)].kind = "dir"

StructuralMirroringWitness ==
    /\ Finished
    /\ NoRealFailure
    /\ Len(results) = 1
    /\ \E i \in 1..Len(trace) : trace[i].ev = "mkdir" /\ IsExist(trace[i].err)
    /\ \E sub \in SourceDirSubs :
          /\ Len(SubSegs(sub)) = 2
          /\ Exists(fs, Under(t.Target, sub))
          /\ ~Exists(snap, Under(t.Target, sub))

\* C4: a run over the target an earlier run populated does not fail with
\* "already exists", and every file it copies by identity has, after it, the
\* content it had after the earlier run.
IdempotentRerun ==
    (Finished /\ Len(results) >= 2) =>
        /\ ~IsExist(Last(results))
        /\ \A i \in 1..Len(trace) :
              (trace[i].ev = "mkdir" /\ IsExist(trace[i].err)) =>
                  \/ i < Len(trace)
                  \/ Last(results) = Nil
        /\ \A i \in 1..Len(trace) :
              (trace[i].ev = "copy" /\ Identity(trace[i]) /\ trace[i].err = Nil) =>
                  /\ Exists(snap, trace[i].target)
                  /\ fs[trace[i].target].content = snap[trace[i].target].content

IdempotentRerunWitness ==
    /\ Finished
    /\ Len(results) = 2
    /\ results[1] = Nil
    /\ results[2] = Nil
    /\ \E i \in 1..Len(trace) :
          /\ trace[i].ev = "mkdir"
          /\ IsExist(trace[i].err)
          /\ trace[i].sub # <<>>
    /\ \E i \in 1..Len(trace) :
          /\ trace[i].ev = "copy"
          /\ Identity(trace[i])
          /\ trace[i].err = Nil
          /\ fs[trace[i].target].content # <<>>

\* The creation of a target directory failed for a reason other than the
\* directory being there already.
MkdirFailed(e) ==
    /\ e.ev = "mkdir"
    /\ e.err # Nil
    /\ ~(IsExist(e.err) /\ fs[e.target].kind = "dir")

\* C5: when the creation of a target directory fails, at any depth, for a
\* reason other than the directory already existing, nothing more is
\* processed and Translate() returns that error.
MkdirFailureAborts ==
    \A i \in 1..Len(trace) :
        MkdirFailed(trace[i]) =>
            /\ i = Len(trace)
            /\ Finished => Last(results) = trace[i].err

\* The files the walk reaches: the entries, other than directories, of every
\* directory whose listing succeeded and whose Mkdir step let the loop begin.
Reached ==
    UNION {{[sub |-> trace[i].sub, fi |-> trace[i].children[k]] :
               k \in {n \in 1..Len(trace[i].children) : ~trace[i].children[n].isDir}} :
           i \in {j \in 1..Len(trace) :
                     /\ trace[j].ev = "list"
                     /\ trace[j].err = Nil
                     /\ \E m \in 1..Len(trace) :
                           /\ trace[m].ev = "mkdir"
                           /\ trace[m].sub = trace[j].sub
                           /\ (trace[m].err = Nil \/ IsExist(trace[m].err))}}

\* sub/name written out.
Below(sub, name) == IF sub = <<>> THEN name ELSE sub \o <<Slash>> \o name

\* The strategy calls of the run made for the file r with exactly the
\* arguments the contract names; and the calls made for it at all.
CallsAsSpecified(r) ==
    {i \in 1..Len(trace) :
        /\ trace[i].ev = "copy"
        /\ trace[i].source = Under(t.Source, Below(r.sub, r.fi.name))
        /\ trace[i].target = Under(t.Target, Below(r.sub, r.fi.name))
        /\ trace[i].fi = r.fi
        /\ trace[i].data = t.CopyData}
CallsFor(r) ==
    {i \in 1..Len(trace) :
        /\ trace[i].ev = "copy"
        /\ \/ trace[i].sub = Below(r.sub, r.fi.name)
           \/ trace[i].source = Under(t.Source, Below(r.sub, r.fi.name))}

\* C6: the copy strategy is called exactly once for each file the walk
\* reaches that ExcludeFile does not reject, never for one it rejects, and
\* each call gets source root/subpath, target root/subpath, the file's
\* metadata and CopyData.
CopyFuncOncePerIncludedFile ==
    /\ \A i \in 1..Len(trace) :
          trace[i].ev = "copy" =>
              /\ ~Excludes(t.ExcludeFile, trace[i].fi)
              /\ trace[i].data = t.CopyData
              /\ trace[i].source = Under(t.Source, trace[i].sub)
              /\ trace[i].target = Under(t.Target, trace[i].sub)
    /\ Finished =>
          \A r \in Reached :
              /\ CallsFor(r) = CallsAsSpecified(r)
              /\ Cardinality(CallsAsSpecified(r)) =
                     IF Excludes(t.ExcludeFile, r.fi) THEN 0 ELSE 1

CopyFuncOncePerIncludedFileWitness ==
    /\ Finished
    /\ \E r \in Reached : Excludes(t.ExcludeFile, r.fi) /\ r.sub # <<>>
    /\ \E r \in Reached :
          /\ ~Excludes(t.ExcludeFile, r.fi)
          /\ r.sub # <<>>
          /\ Cardinality(CallsAsSpecified(r)) = 1

\* C7: after an identity copy (ColdCopy, or TemplateCopy of a source without
\* the marker extension) has returned without error, the target file holds
\* exactly the bytes of the source file, whatever it held before.
IdentityCopyFidelity ==
    (trace # <<>> /\ Last(trace).ev = "copy" /\ Identity(Last(trace))
        /\ Last(trace).err = Nil) =>
        /\ Exists(fs, Last(trace).target)
        /\ fs[Last(trace).target].kind = "file"
        /\ fs[Last(trace).target].content = snap[Last(trace).source].content

IdentityCopyFidelityWitness ==
    /\ trace # <<>>
    /\ Last(trace).ev = "copy"
    /\ Identity(Last(trace))
    /\ Last(trace).err = Nil
    /\ Last(trace).old.exists
    /\ Len(Last(trace).old.content) > Len(fs[Last(trace).target].content)
    /\ fs[Last(trace).target].content # <<>>

\* The files a step wrote: those it created and those whose node it changed.
FilesWritten ==
    {p \in DOMAIN fs' :
        /\ fs'[p].kind = "file"
        /\ (Exists(fs, p) => fs'[p] # fs[p])}

\* The step made a call that the trace records.
Recorded == Len(trace') = Len(trace) + 1

\* C8: TemplateCopy of a source ending in ".tmpl" writes the file named by the
\* target path less that one trailing ".tmpl" and no other; TemplateCopy of
\* any other source writes the file of the unchanged target name, with the
\* bytes of the source.
TemplateCopyDispatch ==
    [][(Recorded /\ t.CopyFunc = "TemplateCopy") =>
          LET e == Last(trace')
          IN  e.ev = "copy" =>
                  IF HasSuffix(e.source, TmplExt)
                  THEN /\ \A p \in FilesWritten : p \o TmplExt = e.target
                       /\ e.err = Nil =>
                             \E p \in DOMAIN fs' :
                                 /\ p \o TmplExt = e.target
                                 /\ fs'[p].kind = "file"
                                 /\ fs'[p].content =
                                        Execute(fs[e.source].content, e.data)
                  ELSE /\ \A p \in FilesWritten : p = e.target
                       /\ e.err = Nil =>
                             /\ Exists(fs', e.target)
                             /\ fs'[e.target].kind = "file"
                             /\ fs'[e.target].content = fs[e.source].content]_vars

TemplateCopyDispatchWitness ==
    /\ t.CopyFunc = "TemplateCopy"
    /\ trace # <<>>
    /\ Last(trace).ev = "copy"
    /\ Last(trace).err = Nil
    /\ HasSuffix(Last(trace).source, TmplExt)
    /\ HasSuffix(Last(trace).target, TmplExt)
    /\ ~Exists(fs, Last(trace).target)
    /\ Exists(fs, TrimSuffix(Last(trace).target, TmplExt))
    /\ \E i \in 1..Len(trace) :
          /\ trace[i].ev = "copy"
          /\ trace[i].err = Nil
          /\ ~HasSuffix(trace[i].source, TmplExt)
          /\ Exists(fs, trace[i].target)

ListFailureLeavesTarget ==
    [][Recorded =>
          /\ LET e == Last(trace')
             IN  (e.ev = "list" /\ e.err # Nil) =>
                     /\ fs' = fs
                     /\ stack' = Tail(stack)
                     /\ Len(stack) = 1 => results' = Append(results, e.err)
          /\ \A i \in 1..Len(trace) :
                (trace[i].ev = "list" /\ trace[i].err # Nil) =>
                    LET failed == SubSegs(trace[i].sub)
                        now == SubSegs(Last(trace').sub)
                    IN  ~(/\ Len(now) >= Len(failed)
                          /\ SubSeq(now, 1, Len(failed)) = failed)]_vars

ListFailureLeavesTargetWitness ==
    /\ trace # <<>>
    /\ Last(trace).ev = "list"
    /\ Last(trace).err # Nil
    /\ Last(trace).sub # <<>>
    /\ ~Exists(fs, Under(t.Target, Last(trace).sub))
    /\ Exists(fs, t.Target)

====
